---- MODULE Spec2Model ----
(***************************************************************************)
(* The agent-driven browser control loop of browser_agent_mcp_server.py:   *)
(* the driver AsyncPlaywrightBrowser (one browser process, one page        *)
(* handle re-pointed by page-lifecycle callbacks) and the controller       *)
(* run_browser_task (gateway call, execution of the returned batch,        *)
(* post-action capture, termination check, step budget).                   *)
(*                                                                         *)
(* run_browser_task is a coroutine.  Each action below is the code that    *)
(* runs between two suspension points (awaits); the page-lifecycle         *)
(* callbacks run on the same event loop, so they interleave with the       *)
(* coroutine exactly at those points.                                      *)
(*                                                                         *)
(* Spec is the whole run.  DriverSpec is the driver alone, on an open      *)
(* session: its methods called one at a time with their arguments, each    *)
(* recorded with the commands it issued on the page.                       *)
(***************************************************************************)
EXTENDS Naturals, Sequences, FiniteSets, TLC

\* Largest step budget (max_steps) a run is started with.
MaxSteps == 2
\* Largest number of items in one gateway response ("output" list).
MaxBatch == 2
\* Largest number of pages the browser creates during one run.
MaxPages == 2

\* Python's None, for a page handle that was never set.
None == 0

VARIABLES
    pc,            \* suspension point run_browser_task is at
    max_steps,     \* the step budget of the run
    step,          \* local `step`
    items,         \* local `items`: the transcript
    batch,         \* response["output"] of the last gateway response
    idx,           \* position of the for loop in batch
    log,           \* local `log`
    _playwright,   \* self._playwright: "none", "started", "stopped"
    _browser,      \* self._browser:    "none", "open", "closed"
    pages,         \* self._browser.contexts[0].pages, in creation order
    _page,         \* self._page
    created,       \* number of pages the browser has created
    target,        \* page the pending driver command was issued on
    outcome,       \* what the caller got: "running", "returned", "raised"
    error,         \* the exception that ended the run, "none" if none
    phase,         \* Starting, Stepping, Finished, Aborted (spec section 4.4)
    gatewayCalls,  \* number of create_response calls issued
    executed,      \* transcript positions of the requests invoked on the driver
    batchBase,     \* length of the transcript when the last response arrived
    drv,           \* the driver method called last: its arguments and what it
                   \* issued on the page (DriverSpec)
    avail          \* availability.py, main: the day, its work window, the busy
                   \* periods and the free slots (AvailSpec)

vars == <<pc, max_steps, step, items, batch, idx, log, _playwright, _browser,
          pages, _page, created, target, outcome, error, phase,
          gatewayCalls, executed, batchBase, drv, avail>>

ctl    == <<step, items, batch, idx, log, outcome, error, phase,
            gatewayCalls, executed, batchBase, drv, avail>>
driver == <<_playwright, _browser, pages, _page, created>>
proc   == <<_playwright, _browser, pages, outcome>>

-----------------------------------------------------------------------------
(* Sequences *)

Range(s) == {s[i] : i \in 1..Len(s)}

Last(s) == s[Len(s)]

RECURSIVE Remove(_, _)
Remove(s, x) ==
    IF s = <<>> THEN <<>>
    ELSE IF Head(s) = x THEN Remove(Tail(s), x)
    ELSE <<Head(s)>> \o Remove(Tail(s), x)

RECURSIVE SeqsUpTo(_, _)
SeqsUpTo(S, n) ==
    IF n = 0 THEN {<<>>}
    ELSE LET shorter == SeqsUpTo(S, n - 1)
         IN  shorter \cup {Append(s, x) : s \in {t \in shorter : Len(t) = n - 1}, x \in S}

-----------------------------------------------------------------------------
(* Transcript items *)

Item(t, r, c, v, m) ==
    [type |-> t, role |-> r, call_id |-> c, verb |-> v, missing |-> m]

\* {"role": "user", "content": task}
UserItem == Item("none", "user", 0, "none", "none")

\* A gateway item of type "message"; m = "content" when it has no content.
MessageItem(m) == Item("message", "assistant", 0, "none", m)

\* A gateway item of type "computer_call"; m names the key it lacks.
CallItem(c, v, m) ==
    Item("computer_call", "none", IF m = "call_id" THEN 0 ELSE c, v, m)

\* A call_output that does not carry the call_id of its request.
OutputItemNoId(c, s, u) == Item("computer_call_output", "none", 0, "none", "none")

\* call_output for call c, built from a screenshot of page s and the URL of
\* page u.  The transcript keeps its call_id; the loop never reads the payload
\* back, and the two pages are those of the step that builds the item.
OutputItem(c, s, u) == Item("computer_call_output", "none", c, "none", "none")

LogLine(tag, arg) == [tag |-> tag, arg |-> arg]

-----------------------------------------------------------------------------
(* The gateway's answers *)

\* The action types the gateway is taken to request: one the driver has and
\* one it does not have.
Verbs == {"click", "hover"}

\* The shapes of one item of response["output"].
Shapes ==
    {<<"message", "none">>}
        \cup {<<v, "none">> : v \in Verbs}
        \cup {<<"click", "action">>, <<"click", "call_id">>}

ShapeItem(sh, c) ==
    IF sh[1] = "message" THEN MessageItem(sh[2]) ELSE CallItem(c, sh[1], sh[2])

\* The batches a response can carry; call ids are fresh (firstId, firstId + 1, ...).
Batches(firstId) ==
    {[i \in 1..Len(shs) |-> ShapeItem(shs[i], firstId + i - 1)] :
        shs \in SeqsUpTo(Shapes, MaxBatch)}

\* create_response raises: the request timed out, or the status was not 200.
GatewayErrors == {"GatewayTimeout", "GatewayError"}

-----------------------------------------------------------------------------
(* The driver: AsyncPlaywrightBrowser *)

\* availability.py has not been run.
NoDay ==
    [stage |-> "none", day |-> "none", day_start |-> 0, day_end |-> 0,
     all_busy |-> <<>>, busy |-> <<>>, free |-> <<>>]

\* No driver method has been called yet; a new page has its pointer at (0, 0).
NoCall ==
    [verb |-> "none", args |-> <<>>, result |-> "none", trace |-> <<>>,
     mouse |-> <<0, 0>>]

\* The callable attributes of an AsyncPlaywrightBrowser: what getattr finds.
BrowserMethods ==
    {"get_dimensions", "get_current_url", "screenshot", "click", "double_click",
     "scroll", "type", "wait", "move", "keypress", "drag", "goto"}

\* getattr(browser, action_type) raises AttributeError for any other name.
HasAttr(v) == v \in BrowserMethods

\* The methods that issue a command on self._page; wait sleeps, get_dimensions
\* and get_current_url read fields.
TouchesPage(v) == v \notin {"wait", "get_dimensions", "get_current_url"}

\* A command issued on page p succeeds only on a page that is still open.
PageOpen(p) == p \in Range(pages)

\* A page callback that leaves the handle where it is.
HandleNewPageIgnored(handle, p) == handle

\* _handle_new_page: the handle follows the new page.
HandleNewPage(handle, p) == p

\* A close callback that puts the handle on the page that closed.
HandlePageCloseTakesClosed(handle, p, remaining) == p

\* A close callback that leaves the handle on the closed page.
HandlePageCloseStale(handle, p, remaining) == handle

\* _handle_page_close: `remaining` is contexts[0].pages when the callback runs,
\* the closed page already removed.
HandlePageClose(handle, p, remaining) ==
    IF handle = p /\ remaining # <<>> THEN Last(remaining) ELSE handle

\* The browser creates a page (a popup, a new tab): context "page" event.
PageCreated ==
    /\ _browser = "open"
    /\ pc \in {"goto", "gateway", "action", "screenshot"}
    /\ created < MaxPages
    /\ created' = created + 1
    /\ pages' = Append(pages, created + 1)
    /\ _page' = HandleNewPage(_page, created + 1)
    /\ UNCHANGED <<pc, max_steps, target, _playwright, _browser>>
    /\ UNCHANGED ctl

\* A page closes: the page's "close" event, after the context dropped it.
PageClosed ==
    /\ _browser = "open"
    /\ pc \in {"goto", "gateway", "action", "screenshot"}
    /\ \E p \in Range(pages) :
        /\ pages' = Remove(pages, p)
        /\ _page' = HandlePageClose(_page, p, Remove(pages, p))
    /\ UNCHANGED <<pc, max_steps, target, _playwright, _browser, created>>
    /\ UNCHANGED ctl

-----------------------------------------------------------------------------
(* The controller: run_browser_task *)

\* A loop guard that is off by one.
LoopGuardInclusive(st, budget) == st <= budget

\* while step < max_steps
LoopGuard(st, budget) == st < budget

\* items[-1].get("role") == "assistant"
FinalAnswer(its) == Last(its).role = "assistant"

\* A loop that goes for the last item of the batch first.
ScanLastFirst(b, i, lg) ==
    IF i > Len(b) THEN [kind |-> "end", idx |-> i, log |-> lg, err |-> "none"]
    ELSE [kind |-> "call", idx |-> Len(b), log |-> lg, err |-> "none"]

\* The for loop over response["output"] from position i on, up to the next
\* await: what it appended to the log and where it stopped (at the end of the
\* batch, at the call of a driver method, or at an exception).
RECURSIVE Scan(_, _, _)
Scan(b, i, lg) ==
    IF i > Len(b) THEN [kind |-> "end", idx |-> i, log |-> lg, err |-> "none"]
    ELSE IF b[i].type = "message" THEN
        IF b[i].missing = "content"
        THEN [kind |-> "raise", idx |-> i, log |-> lg, err |-> "KeyError"]
        ELSE Scan(b, i + 1, Append(lg, LogLine("Agent", 0)))
    ELSE IF b[i].type = "computer_call" THEN
        IF b[i].missing = "action"
        THEN [kind |-> "raise", idx |-> i, log |-> lg, err |-> "KeyError"]
        ELSE IF ~HasAttr(b[i].verb)
        THEN [kind |-> "raise", idx |-> i, err |-> "AttributeError",
              log |-> Append(lg, LogLine("Action", b[i].call_id))]
        ELSE [kind |-> "call", idx |-> i, err |-> "none",
              log |-> Append(lg, LogLine("Action", b[i].call_id))]
    ELSE Scan(b, i + 1, lg)

\* __aexit__ (lines 72-76), run when the `async with` block is left; then the
\* caller gets the return value or the exception.
Exit(how) ==
    /\ pc' = "done"
    /\ _browser' = IF _browser = "open" THEN "closed" ELSE _browser
    /\ _playwright' = IF _playwright = "started" THEN "stopped" ELSE _playwright
    /\ pages' = <<>>
    /\ target' = None
    /\ outcome' = how

\* An exception that ends the run without the state machine being told.
RaiseKeepsPhase(err, lg) ==
    /\ Exit("raised")
    /\ error' = err
    /\ phase' = phase
    /\ log' = lg
    /\ UNCHANGED <<step, gatewayCalls>>

\* An exception that is answered with another gateway call.
RaiseThenRetry(err, lg) ==
    /\ pc' = "gateway"
    /\ error' = err
    /\ log' = lg
    /\ gatewayCalls' = gatewayCalls + 1
    /\ UNCHANGED <<_browser, _playwright, pages, target, outcome, phase, step>>

\* An exception leaves the `async with` block and reaches the caller.
Raise(err, lg) ==
    /\ Exit("raised")
    /\ error' = err
    /\ phase' = "Aborted"
    /\ log' = lg
    /\ UNCHANGED <<step, gatewayCalls>>

\* Lines 209-212.
Final(lg, ph) ==
    /\ Exit("returned")
    /\ phase' = ph
    /\ log' = Append(lg, LogLine("Final URL", _page))
    /\ UNCHANGED <<step, gatewayCalls, error>>

\* The head of the while loop: another gateway call, or the budget is spent.
LoopHead(lg) ==
    IF LoopGuard(step, max_steps)
    THEN /\ step' = step + 1
         /\ gatewayCalls' = gatewayCalls + 1
         /\ pc' = "gateway"
         /\ phase' = "Stepping"
         /\ log' = lg
         /\ target' = None
         /\ UNCHANGED error
         /\ UNCHANGED proc
    ELSE Final(lg, "Aborted")

\* A batch that is put in front of the transcript.
ExtendInFront(its, b) == b \o its

\* items += response["output"], line 174.
Extend(its, b) == its \o b

\* The rest of a batch b from position i on; its is the transcript, base its
\* length when b arrived.
Continue(its, b, base, i, lg) ==
    LET r == Scan(b, i, lg) IN
    /\ items' = its
    /\ idx' = r.idx
    /\ CASE r.kind = "call" ->
              /\ pc' = "action"
              /\ target' = _page
              /\ executed' = Append(executed, base + r.idx)
              /\ log' = r.log
              /\ UNCHANGED <<step, gatewayCalls, error, phase>>
              /\ UNCHANGED proc
         [] r.kind = "raise" ->
              /\ Raise(r.err, r.log)
              /\ UNCHANGED executed
         [] r.kind = "end" ->
              /\ UNCHANGED executed
              /\ IF FinalAnswer(its) THEN Final(r.log, "Finished") ELSE LoopHead(r.log)

Init ==
    /\ pc = "start"
    /\ max_steps \in 0..MaxSteps
    /\ step = 0
    /\ items = <<>>
    /\ batch = <<>>
    /\ idx = 0
    /\ log = <<>>
    /\ _playwright = "none"
    /\ _browser = "none"
    /\ pages = <<>>
    /\ _page = None
    /\ created = 0
    /\ target = None
    /\ outcome = "running"
    /\ error = "none"
    /\ phase = "Starting"
    /\ gatewayCalls = 0
    /\ executed = <<>>
    /\ batchBase = 0
    /\ drv = NoCall
    /\ avail = NoDay

\* __aenter__, line 56: the automation session is acquired.
AenterStart ==
    /\ pc = "start"
    /\ pc' = "launch"
    /\ _playwright' = "started"
    /\ UNCHANGED <<max_steps, target, _browser, pages, _page, created>>
    /\ UNCHANGED ctl

\* __aenter__, lines 57-64: the browser process is launched.
AenterLaunch ==
    /\ pc = "launch"
    /\ pc' = "new_page"
    /\ _browser' = "open"
    /\ UNCHANGED <<max_steps, target, _playwright, pages, _page, created>>
    /\ UNCHANGED ctl

\* __aenter__, lines 65-70, then line 147: the first page, and goto(start_url)
\* is issued on it.
AenterNewPage ==
    /\ pc = "new_page"
    /\ pc' = "goto"
    /\ created' = created + 1
    /\ pages' = Append(pages, created + 1)
    /\ _page' = created + 1
    /\ target' = created + 1
    /\ UNCHANGED <<max_steps, _playwright, _browser>>
    /\ UNCHANGED ctl

\* An await of __aenter__ raises: the exception leaves `async with` without
\* __aexit__, which runs only for a block that was entered.
AenterFails ==
    /\ UNCHANGED <<drv, avail>>
    /\ pc \in {"start", "launch", "new_page"}
    /\ pc' = "done"
    /\ outcome' = "raised"
    /\ error' = "LaunchError"
    /\ phase' = "Aborted"
    /\ UNCHANGED <<max_steps, step, items, batch, idx, log, target,
                   gatewayCalls, executed, batchBase>>
    /\ UNCHANGED driver

\* Lines 147-163: goto returned; the transcript is seeded and the loop entered.
GotoReturns ==
    /\ UNCHANGED <<drv, avail>>
    /\ pc = "goto"
    /\ PageOpen(target)
    /\ items' = <<UserItem>>
    /\ LoopHead(Append(log, LogLine("Navigated", 0)))
    /\ UNCHANGED <<max_steps, batch, idx, executed, batchBase>>
    /\ UNCHANGED <<_page, created>>

\* Line 147 raises.
GotoFails ==
    /\ UNCHANGED <<drv, avail>>
    /\ pc = "goto"
    /\ Raise("DriverError", log)
    /\ UNCHANGED <<max_steps, items, batch, idx, executed, batchBase>>
    /\ UNCHANGED <<_page, created>>

\* Lines 163-189: a response with an "output" list arrived.
GatewayReturns ==
    /\ UNCHANGED <<drv, avail>>
    /\ pc = "gateway"
    /\ \E b \in Batches(Len(items) + 1) :
        /\ batch' = b
        /\ batchBase' = Len(items)
        /\ Continue(Extend(items, b), b, Len(items), 1, log)
    /\ UNCHANGED max_steps
    /\ UNCHANGED <<_page, created>>

\* Lines 170-172, 209-210: a response without "output".
GatewayNoOutput ==
    /\ UNCHANGED <<drv, avail>>
    /\ pc = "gateway"
    /\ batch' = <<>>
    /\ Final(Append(log, LogLine("Error", 0)), "Aborted")
    /\ UNCHANGED <<max_steps, items, idx, executed, batchBase>>
    /\ UNCHANGED <<_page, created>>

\* Line 163 raises (create_response, lines 37-40).
GatewayFails ==
    /\ UNCHANGED <<drv, avail>>
    /\ pc = "gateway"
    /\ \E e \in GatewayErrors : Raise(e, log)
    /\ UNCHANGED <<max_steps, items, batch, idx, executed, batchBase>>
    /\ UNCHANGED <<_page, created>>

\* Lines 189-192: the driver method returned; the screenshot is requested.
ActionReturns ==
    /\ UNCHANGED <<drv, avail>>
    /\ pc = "action"
    /\ TouchesPage(batch[idx].verb) => PageOpen(target)
    /\ pc' = "screenshot"
    /\ target' = _page
    /\ UNCHANGED <<max_steps, step, items, batch, idx, log, outcome, error,
                   phase, gatewayCalls, executed, batchBase>>
    /\ UNCHANGED driver

\* Line 189 raises.
ActionFails ==
    /\ UNCHANGED <<drv, avail>>
    /\ pc = "action"
    /\ TouchesPage(batch[idx].verb)
    /\ Raise("DriverError", log)
    /\ UNCHANGED <<max_steps, items, batch, idx, executed, batchBase>>
    /\ UNCHANGED <<_page, created>>

\* Lines 192-207 and on to the next await: the screenshot returned.
ScreenshotReturns ==
    /\ UNCHANGED <<drv, avail>>
    /\ pc = "screenshot"
    /\ PageOpen(target)
    /\ IF batch[idx].missing = "call_id"
       THEN /\ Raise("KeyError", log)
            /\ UNCHANGED <<items, idx, executed>>
       ELSE Continue(Append(items, OutputItem(batch[idx].call_id, target, _page)),
                     batch, batchBase, idx + 1, log)
    /\ UNCHANGED <<max_steps, batch, batchBase>>
    /\ UNCHANGED <<_page, created>>

\* Line 192 raises.
ScreenshotFails ==
    /\ UNCHANGED <<drv, avail>>
    /\ pc = "screenshot"
    /\ Raise("DriverError", log)
    /\ UNCHANGED <<max_steps, items, batch, idx, executed, batchBase>>
    /\ UNCHANGED <<_page, created>>

Next ==
    \/ AenterStart
    \/ AenterLaunch
    \/ AenterNewPage
    \/ AenterFails
    \/ GotoReturns
    \/ GotoFails
    \/ GatewayReturns
    \/ GatewayNoOutput
    \/ GatewayFails
    \/ ActionReturns
    \/ ActionFails
    \/ ScreenshotReturns
    \/ ScreenshotFails
    \/ PageCreated
    \/ PageClosed

Spec == Init /\ [][Next]_vars

\* The steps of the coroutine: the return or failure of the call it awaits.
Step ==
    \/ AenterStart
    \/ AenterLaunch
    \/ AenterNewPage
    \/ AenterFails
    \/ GotoReturns
    \/ GotoFails
    \/ GatewayReturns
    \/ GatewayNoOutput
    \/ GatewayFails
    \/ ActionReturns
    \/ ActionFails
    \/ ScreenshotReturns
    \/ ScreenshotFails

\* Every call the coroutine awaits returns or fails in the end (create_response
\* has a timeout; the driver's commands answer or raise); the browser owes no
\* page event.
FairSpec == Spec /\ WF_vars(Step)

\* What run_browser_task's caller holds once the run is over.
CallerLog == IF outcome = "returned" THEN log ELSE <<>>

TypeOK ==
    /\ pc \in {"start", "launch", "new_page", "goto", "gateway", "action",
               "screenshot", "done"}
    /\ step \in 0..(MaxSteps + 1)
    /\ _page \in 0..MaxPages
    /\ phase \in {"Starting", "Stepping", "Finished", "Aborted"}

-----------------------------------------------------------------------------
(* The driver's methods, called one at a time *)

\* A key name is the sequence of its characters.
UpperCase ==
    <<"A", "B", "C", "D", "E", "F", "G", "H", "I", "J", "K", "L", "M",
      "N", "O", "P", "Q", "R", "S", "T", "U", "V", "W", "X", "Y", "Z">>

LowerCase ==
    <<"a", "b", "c", "d", "e", "f", "g", "h", "i", "j", "k", "l", "m",
      "n", "o", "p", "q", "r", "s", "t", "u", "v", "w", "x", "y", "z">>

\* str.lower() on one character: a cased letter becomes its lower-case form,
\* every other character stays.
LowerChar(c) ==
    IF \E i \in 1..Len(UpperCase) : UpperCase[i] = c
    THEN LowerCase[CHOOSE i \in 1..Len(UpperCase) : UpperCase[i] = c]
    ELSE c

\* k.lower()
Lower(k) == [i \in 1..Len(k) |-> LowerChar(k[i])]

CUA_KEY_TO_PLAYWRIGHT_KEY ==
       (<<"e", "n", "t", "e", "r">> :> <<"E", "n", "t", "e", "r">>)
    @@ (<<"t", "a", "b">> :> <<"T", "a", "b">>)
    @@ (<<"s", "p", "a", "c", "e">> :> <<" ">>)
    @@ (<<"b", "a", "c", "k", "s", "p", "a", "c", "e">> :> <<"B", "a", "c", "k", "s", "p", "a", "c", "e">>)
    @@ (<<"d", "e", "l", "e", "t", "e">> :> <<"D", "e", "l", "e", "t", "e">>)
    @@ (<<"e", "s", "c">> :> <<"E", "s", "c", "a", "p", "e">>)
    @@ (<<"a", "r", "r", "o", "w", "u", "p">> :> <<"A", "r", "r", "o", "w", "U", "p">>)
    @@ (<<"a", "r", "r", "o", "w", "d", "o", "w", "n">> :> <<"A", "r", "r", "o", "w", "D", "o", "w", "n">>)
    @@ (<<"a", "r", "r", "o", "w", "l", "e", "f", "t">> :> <<"A", "r", "r", "o", "w", "L", "e", "f", "t">>)
    @@ (<<"a", "r", "r", "o", "w", "r", "i", "g", "h", "t">> :> <<"A", "r", "r", "o", "w", "R", "i", "g", "h", "t">>)
    @@ (<<"h", "o", "m", "e">> :> <<"H", "o", "m", "e">>)
    @@ (<<"e", "n", "d">> :> <<"E", "n", "d">>)
    @@ (<<"p", "a", "g", "e", "u", "p">> :> <<"P", "a", "g", "e", "U", "p">>)
    @@ (<<"p", "a", "g", "e", "d", "o", "w", "n">> :> <<"P", "a", "g", "e", "D", "o", "w", "n">>)
    @@ (<<"s", "h", "i", "f", "t">> :> <<"S", "h", "i", "f", "t">>)
    @@ (<<"c", "t", "r", "l">> :> <<"C", "o", "n", "t", "r", "o", "l">>)
    @@ (<<"a", "l", "t">> :> <<"A", "l", "t">>)
    @@ (<<"c", "m", "d">> :> <<"M", "e", "t", "a">>)
    @@ (<<"w", "i", "n">> :> <<"M", "e", "t", "a">>)
    @@ (<<"s", "u", "p", "e", "r">> :> <<"M", "e", "t", "a">>)
    @@ (<<"o", "p", "t", "i", "o", "n">> :> <<"A", "l", "t">>)

\* A translation whose default is the lower-cased name.
TranslateLowerDefault(k) ==
    IF Lower(k) \in DOMAIN CUA_KEY_TO_PLAYWRIGHT_KEY
    THEN CUA_KEY_TO_PLAYWRIGHT_KEY[Lower(k)]
    ELSE Lower(k)

\* CUA_KEY_TO_PLAYWRIGHT_KEY.get(k.lower(), k)
Translate(k) ==
    IF Lower(k) \in DOMAIN CUA_KEY_TO_PLAYWRIGHT_KEY
    THEN CUA_KEY_TO_PLAYWRIGHT_KEY[Lower(k)]
    ELSE k

\* The key names a request is taken to carry: the names of the mapping, the
\* native names it maps to, names in another case, names it does not know,
\* and the empty name.
KeyNames ==
    DOMAIN CUA_KEY_TO_PLAYWRIGHT_KEY
        \cup {CUA_KEY_TO_PLAYWRIGHT_KEY[k] : k \in DOMAIN CUA_KEY_TO_PLAYWRIGHT_KEY}
        \cup {<<"E", "N", "T", "E", "R">>, <<"E", "s", "c">>,
              <<"C", "T", "R", "L">>, <<"C", "m", "d">>}
        \cup {<<"a">>, <<"A">>, <<"F", "5">>, <<>>}

\* The keys of the key lists longer than one key.
ChordKeys == {<<"c", "t", "r", "l">>, <<"S", "h", "i", "f", "t">>, <<"a">>}

\* Longest key list and longest drag path of a request.
MaxList == 2

KeyLists == {<<k>> : k \in KeyNames} \cup SeqsUpTo(ChordKeys, MaxList)

\* The arguments the requests are taken to carry.
Points  == {<<10, 20>>, <<30, 40>>}
Buttons == {"left", "right", "middle", "back", "forward", "wheel"}
Paths   == SeqsUpTo(Points, MaxList)
Deltas  == {<<0, 100>>}
Texts   == {"hello"}
Urls    == {"https://example.com"}
Millis  == {1000}

\* One command issued on a page: `at` is where the mouse pointer is when the
\* command is issued, `arg` what the command was given.
Prim(op, p, at, arg) == [op |-> op, page |-> p, at |-> at, arg |-> arg]

\* Where a command leaves the mouse pointer.
MouseAfter(prim) ==
    IF prim.op \in {"mouse.move", "mouse.click", "mouse.dblclick"}
    THEN <<prim.arg.x, prim.arg.y>>
    ELSE prim.at

\* click, lines 96-104.
ClickPrims(p, at, x, y, button) ==
    IF button = "back" THEN <<Prim("go_back", p, at, <<>>)>>
    ELSE IF button = "forward" THEN <<Prim("go_forward", p, at, <<>>)>>
    ELSE IF button = "wheel"
    THEN <<Prim("mouse.wheel", p, at, [delta_x |-> x, delta_y |-> y])>>
    ELSE <<Prim("mouse.click", p, at,
                [x |-> x, y |-> y,
                 button |-> IF button \in {"left", "right"} THEN button
                            ELSE "left"])>>

\* double_click, lines 106-107.
DoubleClickPrims(p, at, x, y) ==
    <<Prim("mouse.dblclick", p, at, [x |-> x, y |-> y])>>

\* scroll, lines 109-111.
ScrollPrims(p, at, x, y, scroll_x, scroll_y) ==
    <<Prim("mouse.move", p, at, [x |-> x, y |-> y]),
      Prim("evaluate", p, <<x, y>>, [scroll_x |-> scroll_x, scroll_y |-> scroll_y])>>

\* type, lines 113-114.
TypePrims(p, at, text) == <<Prim("keyboard.type", p, at, text)>>

\* move, lines 119-120.
MovePrims(p, at, x, y) == <<Prim("mouse.move", p, at, [x |-> x, y |-> y])>>

Reverse(s) == [i \in 1..Len(s) |-> s[Len(s) + 1 - i]]

\* keypress, lines 122-127: every key down in order, then up in reverse.
KeypressPrims(p, at, keys) ==
    LET mapped == [i \in 1..Len(keys) |-> Translate(keys[i])]
    IN  [i \in 1..Len(mapped) |-> Prim("keyboard.down", p, at, mapped[i])]
            \o [i \in 1..Len(mapped) |->
                    Prim("keyboard.up", p, at, Reverse(mapped)[i])]

\* drag, lines 129-136.
DragPrims(p, at, path) ==
    IF path = <<>> THEN <<>>
    ELSE <<Prim("mouse.move", p, at, [x |-> path[1][1], y |-> path[1][2]]),
           Prim("mouse.down", p, path[1], <<>>)>>
             \o [i \in 1..(Len(path) - 1) |->
                    Prim("mouse.move", p, path[i], [x |-> path[i + 1][1], y |-> path[i + 1][2]])]
             \o <<Prim("mouse.up", p, Last(path), <<>>)>>

\* goto, lines 138-139.
GotoPrims(p, at, url) == <<Prim("goto", p, at, url)>>

\* screenshot, lines 92-94.
ScreenshotPrims(p, at) == <<Prim("screenshot", p, at, <<>>)>>

\* Lines 188-189 for a method the driver has: getattr finds it and the call
\* issues `prims` on the page of the handle.  The first command on a page that
\* is closed raises.
Invoke(v, args, prims) ==
    /\ pc = "action"
    /\ _browser = "open"
    /\ HasAttr(v)
    /\ drv' = IF prims = <<>> \/ PageOpen(_page)
              THEN [verb |-> v, args |-> args, result |-> "returned",
                    trace |-> prims,
                    mouse |-> IF prims = <<>> THEN drv.mouse
                              ELSE MouseAfter(Last(prims))]
              ELSE [verb |-> v, args |-> args, result |-> "DriverError",
                    trace |-> <<>>, mouse |-> drv.mouse]
    /\ UNCHANGED <<pc, max_steps, step, items, batch, idx, log, target,
                   outcome, error, phase, gatewayCalls, executed, batchBase>>
    /\ UNCHANGED <<driver, avail>>

DispatchClick ==
    \E pt \in Points, button \in Buttons :
        Invoke("click", [x |-> pt[1], y |-> pt[2], button |-> button],
               ClickPrims(_page, drv.mouse, pt[1], pt[2], button))

DispatchDoubleClick ==
    \E pt \in Points :
        Invoke("double_click", [x |-> pt[1], y |-> pt[2]],
               DoubleClickPrims(_page, drv.mouse, pt[1], pt[2]))

DispatchScroll ==
    \E pt \in Points, d \in Deltas :
        Invoke("scroll",
               [x |-> pt[1], y |-> pt[2], scroll_x |-> d[1], scroll_y |-> d[2]],
               ScrollPrims(_page, drv.mouse, pt[1], pt[2], d[1], d[2]))

DispatchType ==
    \E text \in Texts :
        Invoke("type", [text |-> text], TypePrims(_page, drv.mouse, text))

\* wait, lines 116-117: sleeps, issues nothing on the page.
DispatchWait ==
    \E ms \in Millis : Invoke("wait", [ms |-> ms], <<>>)

DispatchMove ==
    \E pt \in Points :
        Invoke("move", [x |-> pt[1], y |-> pt[2]],
               MovePrims(_page, drv.mouse, pt[1], pt[2]))

DispatchKeypress ==
    \E keys \in KeyLists :
        Invoke("keypress", [keys |-> keys],
               KeypressPrims(_page, drv.mouse, keys))

DispatchDrag ==
    \E path \in Paths :
        Invoke("drag", [path |-> path], DragPrims(_page, drv.mouse, path))

DispatchGoto ==
    \E url \in Urls :
        Invoke("goto", [url |-> url], GotoPrims(_page, drv.mouse, url))

\* A request whose type is "screenshot": getattr finds the method of lines
\* 92-94 and line 189 calls it.
DispatchScreenshot ==
    Invoke("screenshot", <<>>, ScreenshotPrims(_page, drv.mouse))

\* A request whose type names a plain method (lines 86-90): line 189 calls it
\* and then awaits what it returned, a tuple or a string, which raises.
DispatchGetter ==
    /\ pc = "action"
    /\ _browser = "open"
    /\ \E v \in {"get_dimensions", "get_current_url"} :
        /\ HasAttr(v)
        /\ drv' = [verb |-> v, args |-> <<>>, result |-> "TypeError",
                   trace |-> <<>>, mouse |-> drv.mouse]
    /\ UNCHANGED <<pc, max_steps, step, items, batch, idx, log, target,
                   outcome, error, phase, gatewayCalls, executed, batchBase>>
    /\ UNCHANGED <<driver, avail>>

\* The verbs of the data model that are not the name of a driver method, and
\* a name nobody knows.
OtherVerbs ==
    {"double-click", "key-press", "navigate", "back", "forward", "hover"}

\* Line 188 for any other name: getattr raises AttributeError, nothing is
\* called.
DispatchUnknown ==
    /\ pc = "action"
    /\ _browser = "open"
    /\ \E v \in OtherVerbs :
        /\ ~HasAttr(v)
        /\ drv' = [verb |-> v, args |-> <<>>, result |-> "AttributeError",
                   trace |-> <<>>, mouse |-> drv.mouse]
    /\ UNCHANGED <<pc, max_steps, step, items, batch, idx, log, target,
                   outcome, error, phase, gatewayCalls, executed, batchBase>>
    /\ UNCHANGED <<driver, avail>>

\* The session is open on its first page and the loop is at line 189.
DriverInit ==
    /\ pc = "action"
    /\ max_steps = MaxSteps
    /\ step = 1
    /\ items = <<UserItem>>
    /\ batch = <<>>
    /\ idx = 0
    /\ log = <<>>
    /\ _playwright = "started"
    /\ _browser = "open"
    /\ pages = <<1>>
    /\ _page = 1
    /\ created = 1
    /\ target = None
    /\ outcome = "running"
    /\ error = "none"
    /\ phase = "Stepping"
    /\ gatewayCalls = 1
    /\ executed = <<>>
    /\ batchBase = 1
    /\ drv = NoCall
    /\ avail = NoDay

DriverNext ==
    \/ DispatchClick
    \/ DispatchDoubleClick
    \/ DispatchScroll
    \/ DispatchType
    \/ DispatchWait
    \/ DispatchMove
    \/ DispatchKeypress
    \/ DispatchDrag
    \/ DispatchGoto
    \/ DispatchScreenshot
    \/ DispatchGetter
    \/ DispatchUnknown
    \/ PageCreated
    \/ PageClosed

\* The driver's methods called in any order with any of the arguments above,
\* and the browser's page events between the calls.
DriverSpec == DriverInit /\ [][DriverNext]_vars

-----------------------------------------------------------------------------
(* availability.py: busy periods and free slots of one day *)

\* Instants are numbered 0..MaxTime; MaxTime is the last instant of the day.
MaxTime == 3
\* Largest number of busy periods the calendars report for one day.
MaxPeriods == 2

Times == 0..MaxTime

\* A day of TIMEZONE on which the clocks stay, and the day on which they are
\* set back.
Days == {"regular", "fall_back"}

\* The instant at which the clocks are set back by one unit on that day.
FoldAt == 2

\* What dt.astimezone(tz) shows for instant t: year, month, day, hour, minute
\* of TIMEZONE.  On the day the clocks are set back the instants FoldAt - 1
\* and FoldAt show the same reading.
Wall(day, t) == IF day = "fall_back" /\ t >= FoldAt THEN t - 1 ELSE t

\* a < b, a <= b and a >= b for two datetimes that carry the same tzinfo
\* object (ZoneInfo(TIMEZONE)): Python compares their readings, not their
\* instants.
LocalLess(day, a, b) == Wall(day, a) < Wall(day, b)
LocalLeq(day, a, b)  == Wall(day, a) <= Wall(day, b)

\* max(a, b) and min(a, b) of two such datetimes: the first argument unless
\* the second is greater (smaller).
LocalMax(day, a, b) == IF LocalLess(day, a, b) THEN b ELSE a
LocalMin(day, a, b) == IF LocalLess(day, b, a) THEN b ELSE a

\* datetime(y, m, d, hour, 0, tzinfo=tz), lines 187-190: the first instant
\* that shows the reading.
WindowTimes(day) ==
    {t \in Times : \A u \in Times : Wall(day, u) = Wall(day, t) => t <= u}

\* The busy periods of the freebusy answer, lines 92-96: (start, end) with
\* start <= end, in any order.
Periods == {p \in Times \X Times : p[1] <= p[2]}

PeriodLists == SeqsUpTo(Periods, MaxPeriods)

\* sorted(periods, key=lambda x: x[0]), line 106: stable, so p goes behind
\* every period that starts no later.
RECURSIVE InsertByStart(_, _)
InsertByStart(sorted, p) ==
    IF sorted = <<>> THEN <<p>>
    ELSE IF Head(sorted)[1] <= p[1]
         THEN <<Head(sorted)>> \o InsertByStart(Tail(sorted), p)
         ELSE <<p>> \o sorted

RECURSIVE SortedByStart(_)
SortedByStart(periods) ==
    IF periods = <<>> THEN <<>>
    ELSE InsertByStart(SortedByStart(SubSeq(periods, 1, Len(periods) - 1)),
                       Last(periods))

Max(a, b) == IF b > a THEN b ELSE a

\* A test that lets touching periods stand apart.
JoinsStrict(start, last_end) == start < last_end

\* Line 111: the period joins the last merged one.
Joins(start, last_end) == start <= last_end

\* The for loop of lines 109-114 from position i of sorted_periods on.
RECURSIVE MergeLoop(_, _, _)
MergeLoop(sorted_periods, i, merged) ==
    IF i > Len(sorted_periods) THEN merged
    ELSE LET start == sorted_periods[i][1]
             end == sorted_periods[i][2]
             last_start == Last(merged)[1]
             last_end == Last(merged)[2]
         IN  IF Joins(start, last_end)
             THEN MergeLoop(sorted_periods, i + 1,
                            [merged EXCEPT ![Len(merged)] =
                                <<last_start, Max(last_end, end)>>])
             ELSE MergeLoop(sorted_periods, i + 1, Append(merged, <<start, end>>))

\* merge_busy_periods, lines 101-116.
merge_busy_periods(periods) ==
    IF periods = <<>> THEN <<>>
    ELSE LET sorted_periods == SortedByStart(periods)
         IN  MergeLoop(sorted_periods, 2, <<sorted_periods[1]>>)

\* The for loop of lines 125-139 from position i of busy_periods on.
RECURSIVE FreeLoop(_, _, _, _, _, _)
FreeLoop(day, busy_periods, day_start, day_end, i, st) ==
    IF i > Len(busy_periods) THEN st
    ELSE LET busy_start == busy_periods[i][1]
             busy_end == busy_periods[i][2]
         IN  IF LocalLeq(day, busy_end, day_start) \/ LocalLeq(day, day_end, busy_start)
             THEN FreeLoop(day, busy_periods, day_start, day_end, i + 1, st)
             ELSE LET busy_start_clamped == LocalMax(day, busy_start, day_start)
                      busy_end_clamped == LocalMin(day, busy_end, day_end)
                      free == IF LocalLess(day, st.current, busy_start_clamped)
                              THEN Append(st.free, <<st.current, busy_start_clamped>>)
                              ELSE st.free
                  IN  FreeLoop(day, busy_periods, day_start, day_end, i + 1,
                               [free |-> free,
                                current |-> LocalMax(day, st.current, busy_end_clamped)])

\* get_free_slots, lines 119-144.
get_free_slots(day, busy_periods, day_start, day_end) ==
    LET st == FreeLoop(day, busy_periods, day_start, day_end, 1,
                       [free |-> <<>>, current |-> day_start])
    IN  IF LocalLess(day, st.current, day_end)
        THEN Append(st.free, <<st.current, day_end>>)
        ELSE st.free

\* The variables of the browser agent, which availability.py does not have.
agent == <<pc, max_steps, step, items, batch, idx, log, _playwright, _browser,
           pages, _page, created, target, outcome, error, phase,
           gatewayCalls, executed, batchBase, drv>>

\* main, lines 165-190: a day and its work hours, from the arguments and the
\* configuration.
AvailInit ==
    /\ pc = "start"
    /\ max_steps = 0
    /\ step = 0
    /\ items = <<>>
    /\ batch = <<>>
    /\ idx = 0
    /\ log = <<>>
    /\ _playwright = "none"
    /\ _browser = "none"
    /\ pages = <<>>
    /\ _page = None
    /\ created = 0
    /\ target = None
    /\ outcome = "running"
    /\ error = "none"
    /\ phase = "Starting"
    /\ gatewayCalls = 0
    /\ executed = <<>>
    /\ batchBase = 0
    /\ drv = NoCall
    /\ \E day \in Days :
        \E day_start \in WindowTimes(day), day_end \in WindowTimes(day) :
            avail = [stage |-> "day", day |-> day,
                     day_start |-> day_start, day_end |-> day_end,
                     all_busy |-> <<>>, busy |-> <<>>, free |-> <<>>]

\* Line 196: busy = get_busy_times(...), which returns
\* merge_busy_periods(all_busy) (line 98).
GetBusyTimes ==
    /\ avail.stage = "day"
    /\ \E all_busy \in PeriodLists :
        avail' = [avail EXCEPT !.stage = "busy",
                               !.all_busy = all_busy,
                               !.busy = merge_busy_periods(all_busy)]
    /\ UNCHANGED agent

\* Line 197: free_slots = get_free_slots(busy, day_start, day_end); all_busy
\* was a local of get_busy_times.
GetFreeSlots ==
    /\ avail.stage = "busy"
    /\ avail' = [avail EXCEPT !.stage = "free",
                              !.all_busy = <<>>,
                              !.free = get_free_slots(avail.day, avail.busy,
                                                      avail.day_start, avail.day_end)]
    /\ UNCHANGED agent

AvailNext ==
    \/ GetBusyTimes
    \/ GetFreeSlots

\* One day of main's loop, for every day, work window and freebusy answer.
AvailSpec == AvailInit /\ [][AvailNext]_vars

-----------------------------------------------------------------------------
(* Properties *)

Done == pc = "done"

Requests(its) == {i \in 1..Len(its) : its[i].type = "computer_call"}
Results(its)  == {i \in 1..Len(its) : its[i].type = "computer_call_output"}
Messages(its) == {i \in 1..Len(its) : its[i].type = "message"}

\* The log has the line of a response without "output".
NoOutputLogged == \E i \in 1..Len(log) : log[i].tag = "Error"

\* The run was ended by a request of the current batch: the driver method or
\* its capture failed, the verb was unknown, or the request lacked a key.
AbortedByRequest ==
    /\ Done
    /\ items # <<>>
    /\ error \in {"DriverError", "AttributeError", "KeyError"}

\* C1: a run with budget N >= 1 in which the gateway returns no final-answer
\* item and no gateway or driver call fails ends Aborted after exactly N
\* gateway calls; no run makes more gateway calls than its budget.
C1_BudgetExact ==
    /\ gatewayCalls <= max_steps
    /\ (/\ Done
        /\ max_steps >= 1
        /\ outcome = "returned"
        /\ Messages(items) = {}
        /\ ~NoOutputLogged)
       => (gatewayCalls = max_steps /\ step = max_steps /\ phase = "Aborted")

C1_Witness ==
    /\ Done
    /\ max_steps >= 2
    /\ outcome = "returned"
    /\ Messages(items) = {}
    /\ ~NoOutputLogged
    /\ Results(items) # {}
    /\ gatewayCalls = max_steps

\* C2: once a batch that ends with a final message has been processed, the run
\* is over and Finished: no further gateway call is made.  Stated for the
\* batches that arrive with budget left (gatewayCalls < max_steps), where the
\* budget does not end the run by itself.
C2_FinalMessageFinishes ==
    (/\ batch # <<>>
     /\ idx > Len(batch)
     /\ error = "none"
     /\ Last(batch).type = "message"
     /\ gatewayCalls - (IF pc = "gateway" THEN 1 ELSE 0) < max_steps)
    => (Done /\ phase = "Finished")

\* C3: in the final transcript there are as many action-results as there are
\* action-requests other than the one that caused an abort.
C3_NoOrphanedRequests ==
    Done => Cardinality(Results(items)) =
            Cardinality(Requests(items)) - (IF AbortedByRequest THEN 1 ELSE 0)

\* C4: when the run is over, however it ended, the browser process is closed
\* and the automation session is released.
C4_TeardownOnEveryExit ==
    Done => (_browser # "open" /\ _playwright # "started")

\* C5: with max_steps = 0 the run goes from Starting to Aborted; no gateway
\* call is made and no action is executed.
C5_ZeroBudget ==
    max_steps = 0 =>
        /\ gatewayCalls = 0
        /\ executed = <<>>
        /\ pc \notin {"gateway", "action", "screenshot"}
        /\ phase \in {"Starting", "Aborted"}
        /\ Done => phase = "Aborted"

C5_Witness ==
    /\ max_steps = 0
    /\ Done
    /\ outcome = "returned"
    /\ phase = "Aborted"
    /\ items = <<UserItem>>

\* A step in which the page the handle is on closes while another page stays.
ActivePageClosesOthersRemain ==
    /\ pc' = pc
    /\ Len(pages') < Len(pages)
    /\ PageOpen(_page)
    /\ _page \notin Range(pages')
    /\ pages' # <<>>

C7_HandleUndefinedWhenNoPage ==
    (_browser = "open" /\ created >= 1 /\ pages = <<>>) => _page = None

\* C8: when a gateway call fails, the run ends Aborted with the browser
\* resources released, and the caller receives the accumulated log, its last
\* line indicating the error.
C8_GatewayFailureReturnsLog ==
    (Done /\ error \in GatewayErrors) =>
        /\ phase = "Aborted"
        /\ _browser = "closed"
        /\ _playwright = "stopped"
        /\ outcome = "returned"
        /\ CallerLog # <<>>
        /\ Last(CallerLog).tag = "Error"

\* C9: no part of a malformed batch is applied: none of its items is in the
\* transcript and none of its actions was invoked on the driver.
C9_MalformedBatchNotApplied ==
    (\E i \in 1..Len(batch) : batch[i].missing # "none") =>
        /\ Len(items) = batchBase
        /\ \A e \in Range(executed) : e <= batchBase

\* C10: a request with an unsupported verb ends the run in Aborted without a
\* crash: the failure is a line of the log, the log is returned to the
\* caller, and no later action of the batch is executed.
C10_UnsupportedVerbReturnsLog ==
    (Done /\ error = "AttributeError") =>
        /\ phase = "Aborted"
        /\ outcome = "returned"
        /\ CallerLog # <<>>
        /\ Last(CallerLog).tag = "Error"
        /\ \A e \in Range(executed) : e < batchBase + idx

Terminal == {"Finished", "Aborted"}

\* The transitions of the state machine as C11 lists them.
ListedTransition ==
    \/ phase' = phase
    \/ phase = "Starting" /\ phase' = "Stepping"
    \/ phase = "Stepping" /\ phase' \in Terminal

\* The same, with Starting -> Aborted.
AmendedTransition ==
    \/ ListedTransition
    \/ phase = "Starting" /\ phase' = "Aborted"

\* What is left of the run, as a triple that every step makes smaller: the
\* gateway calls the budget still allows, then the awaits left before the next
\* gateway call, then (for the page events, which leave the coroutine where it
\* is) the page events the browser can still produce.
StepsLeft ==
    CASE pc \in {"start", "launch", "new_page", "goto"} -> max_steps + 1
      [] pc \in {"gateway", "action", "screenshot"}     -> max_steps - step
      [] pc = "done"                                    -> 0

AwaitsLeft ==
    CASE pc = "start"      -> 4
      [] pc = "launch"     -> 3
      [] pc = "new_page"   -> 2
      [] pc = "goto"       -> 1
      [] pc = "gateway"    -> 2 * MaxBatch + 3
      [] pc = "action"     -> 2 * (Len(batch) - idx) + 2
      [] pc = "screenshot" -> 2 * (Len(batch) - idx) + 1
      [] pc = "done"       -> 0

PageEventsLeft == 2 * (MaxPages - created) + Len(pages)

CoroutineMoved == pc' # pc \/ step' # step

LessLeft ==
    \/ StepsLeft' < StepsLeft
    \/ StepsLeft' = StepsLeft /\ AwaitsLeft' < AwaitsLeft
    \/ /\ ~CoroutineMoved
       /\ UNCHANGED <<target, ctl, _browser, _playwright>>
       /\ PageEventsLeft' < PageEventsLeft

\* C11 as stated: every run reaches a terminal state, and the only transitions
\* are Starting -> Stepping and Stepping -> {Stepping, Finished, Aborted}.
\* Termination is stated as for C11_Terminates.
C11_OnlyListedTransitions ==
    /\ [](Done \/ ENABLED Step)
    /\ [](Done => phase \in Terminal)
    /\ [][LessLeft /\ ListedTransition]_vars

\* C11, amended: every run reaches a terminal state (Finished or Aborted), and
\* the only transitions are Starting -> {Stepping, Aborted} and
\* Stepping -> {Stepping, Finished, Aborted}.  Termination: until the run is
\* over the coroutine has a step to take (the call it awaits returns or
\* fails), every step of the coroutine leaves less of the run and a page event
\* leaves the coroutine where it is, and a run that is over is in a terminal
\* state; so under FairSpec every run gets there.
C11_Terminates ==
    /\ [](Done \/ ENABLED Step)
    /\ [](Done => phase \in Terminal)
    /\ [][LessLeft /\ AmendedTransition]_vars

C11_Witness ==
    /\ Done
    /\ phase = "Finished"
    /\ gatewayCalls = 2
    /\ Results(items) # {}

\* The same as a liveness property, for the bounds as written.
C11_EventuallyTerminal == <>(Done /\ phase \in Terminal)

\* The native key names: the range of the mapping.
NativeKeys ==
    {CUA_KEY_TO_PLAYWRIGHT_KEY[k] : k \in DOMAIN CUA_KEY_TO_PLAYWRIGHT_KEY}

\* keypress(keys) has pressed its keys: key i of the request went down as
\* the i-th command.
KeysPressed ==
    /\ drv.verb = "keypress"
    /\ drv.result = "returned"

\* C12 as stated: translation is idempotent, leaves every native key name
\* unchanged, and passes every key that is not a key of the mapping through
\* unchanged.
C12_NotInMappingUnchanged ==
    KeysPressed =>
        \A i \in 1..Len(drv.args.keys) :
            LET k == drv.args.keys[i]
                t == drv.trace[i].arg
            IN  /\ t = Translate(k)
                /\ Translate(t) = t
                /\ k \in NativeKeys => t = k
                /\ k \notin DOMAIN CUA_KEY_TO_PLAYWRIGHT_KEY => t = k

\* C12, amended: translation is idempotent and leaves every native key name
\* unchanged, and every key whose lower-cased name is not a key of the mapping
\* is passed through unchanged; the lookup ignores case.
C12_TranslationIdempotent ==
    KeysPressed =>
        \A i \in 1..Len(drv.args.keys) :
            LET k == drv.args.keys[i]
                t == drv.trace[i].arg
            IN  /\ t = Translate(k)
                /\ Translate(t) = t
                /\ k \in NativeKeys => t = k
                /\ Lower(k) \notin DOMAIN CUA_KEY_TO_PLAYWRIGHT_KEY => t = k
                /\ Lower(k) \in DOMAIN CUA_KEY_TO_PLAYWRIGHT_KEY
                       => t = CUA_KEY_TO_PLAYWRIGHT_KEY[Lower(k)]

\* A native name and a name the mapping does not know were pressed together.
C12_Witness ==
    /\ KeysPressed
    /\ drv.args.keys = <<<<"S", "h", "i", "f", "t">>, <<"a">>>>
    /\ drv.trace[1].arg = <<"S", "h", "i", "f", "t">>
    /\ drv.trace[2].arg = <<"a">>

\* The results in transcript its that answer the request at position i.
ResultsOf(its, i) ==
    {j \in Results(its) : its[j].call_id = its[i].call_id}

\* C13: at every gateway call, every request of the transcript that was
\* executed has exactly one result with its call_id in the transcript, and the
\* result comes after the request.
C13_ExactlyOneResult ==
    pc = "gateway" =>
        \A i \in Range(executed) :
            /\ Cardinality(ResultsOf(items, i)) = 1
            /\ \A j \in ResultsOf(items, i) : j > i

\* The second gateway call, after a batch of two executed requests.
C13_Witness ==
    /\ pc = "gateway"
    /\ gatewayCalls = 2
    /\ Len(executed) = 2
    /\ Cardinality(Results(items)) = 2

\* The requests invoked on the driver whose result is not in the transcript:
\* their action or their capture is in flight, or it failed.
Outstanding == {i \in Range(executed) : ResultsOf(items, i) = {}}

\* The transcript position of the request the for loop is at.
Current == batchBase + idx

\* C14: execution is strictly sequential.  Requests are invoked in transcript
\* (batch) order and none of a batch is passed over; while an action or its
\* capture is in flight it is the only one without a result, so the capture
\* of every earlier action is complete; and while a gateway call is in flight
\* no action or capture is.
C14_StrictlySequential ==
    /\ \A a, b \in 1..Len(executed) : a < b => executed[a] < executed[b]
    /\ Cardinality(Outstanding) <= 1
    /\ pc \in {"action", "screenshot"} =>
        /\ Outstanding = {Current}
        /\ \A q \in Requests(items) :
               batchBase < q /\ q < Current => q \in Range(executed)
        /\ \A q \in Range(executed) : q <= Current
    /\ pc = "gateway" => Outstanding = {}

\* The second action of a batch is in flight; the capture of the first is in
\* the transcript.
C14_Witness ==
    /\ pc = "action"
    /\ idx = 2
    /\ executed = <<batchBase + 1, batchBase + 2>>
    /\ ResultsOf(items, batchBase + 1) # {}

\* The step appends an action-result to the transcript (lines 192-203).
ResultAppended ==
    /\ pc = "screenshot"
    /\ Len(items') = Len(items) + 1
    /\ Last(items').type = "computer_call_output"

\* C15: in every action-result the screenshot and the current URL are of the
\* same page: the page the screenshot was issued on (target) is the page whose
\* URL is read when the result is built (_page), whatever page events arrived
\* during the step.
C15_ScreenshotAndUrlSamePage ==
    [][ResultAppended => target = _page]_vars

\* The verbs of the data model, with the method spelling of those the driver
\* has a method for.
EnumeratedVerbs ==
    {"click", "double-click", "double_click", "scroll", "type", "wait", "move",
     "key-press", "keypress", "drag", "navigate", "back", "forward"}

\* C16: a request whose verb is not one of the enumerated verbs is rejected
\* as unsupported and nothing is invoked on the driver or issued on the page.
C16_OnlyEnumeratedVerbsInvoked ==
    (drv.verb # "none" /\ drv.verb \notin EnumeratedVerbs) =>
        /\ drv.result = "AttributeError"
        /\ drv.trace = <<>>

\* Sequence s is a prefix of sequence t.
IsPrefix(s, t) ==
    /\ Len(s) <= Len(t)
    /\ \A i \in 1..Len(s) : t[i] = s[i]

\* C17: the transcript is append-only.  Over every step the transcript before
\* is a prefix of the transcript after, and a transcript that is not empty
\* starts with the user-input task.
C17_AppendOnly ==
    [][/\ IsPrefix(items, items')
       /\ items' # <<>> => items'[1] = UserItem]_vars

\* Two full batches and their four results were appended after the task.
C17_Witness ==
    /\ Len(items) = 1 + 2 * (MaxBatch + MaxBatch)
    /\ items[1] = UserItem
    /\ Cardinality(Results(items)) = 2 * MaxBatch

\* A gateway call, a driver method or a capture fails in this step.
Fails == error = "none" /\ error' # "none"

\* C18: no operation is retried.  No request is invoked twice; every gateway
\* call belongs to a step of its own; and the step in which a gateway call,
\* an action or a capture fails ends the run without another gateway call or
\* action, so that a run with an error is over.
C18_NoRetry ==
    /\ [](\A a, b \in 1..Len(executed) : executed[a] = executed[b] => a = b)
    /\ [](gatewayCalls = step)
    /\ [](error # "none" => Done)
    /\ [][gatewayCalls' \in {gatewayCalls, gatewayCalls + 1}]_vars
    /\ [][Fails => /\ pc' = "done"
                   /\ gatewayCalls' = gatewayCalls
                   /\ executed' = executed]_vars

\* A driver call failed on the first request of a batch of two with budget
\* left: the second request was not invoked and no second gateway call made.
C18_Witness ==
    /\ Done
    /\ error = "DriverError"
    /\ max_steps = 2
    /\ gatewayCalls = 1
    /\ Len(batch) = 2
    /\ executed = <<batchBase + 1>>
    /\ batch[2].type = "computer_call"

\* The step issues a command on a page.
CommandIssued == target' # None /\ (pc' # pc \/ idx' # idx)

\* C19: the driver has one active page, the page of its handle.  Whenever the
\* browser creates a page the handle is re-pointed to it, the newest page stays
\* the active page for as long as it is open whatever other pages close, and
\* every action and capture is issued on the page of the handle.
C19_HandleFollowsNewPage ==
    /\ [](_page \in 0..created)
    /\ [](_browser = "open" /\ created \in Range(pages) => _page = created)
    /\ [][created' # created =>
              /\ _page' = created'
              /\ created' \in Range(pages')]_vars
    /\ [][CommandIssued => target' = _page']_vars

\* A second page was created during the step and the capture that follows is
\* issued on it.
C19_Witness ==
    /\ pc = "screenshot"
    /\ pages = <<1, 2>>
    /\ _page = 2
    /\ target = 2

\* C20: click(x, y, button) routes by button.  "back" and "forward" go
\* through the history and click nothing; "wheel" issues one wheel event at
\* (x, y) and clicks nothing; "left" and "right" click at (x, y) with that
\* button; any other button clicks left at (x, y).
C20_ClickRoutesByButton ==
    (drv.verb = "click" /\ drv.result = "returned") =>
        LET x == drv.args.x
            y == drv.args.y
            button == drv.args.button
            prim == drv.trace[1]
        IN  /\ Len(drv.trace) = 1
            /\ button = "back" => prim.op = "go_back"
            /\ button = "forward" => prim.op = "go_forward"
            /\ button = "wheel" =>
                   /\ prim.op = "mouse.wheel"
                   /\ prim.at = <<x, y>>
            /\ button \notin {"back", "forward", "wheel"} =>
                   /\ prim.op = "mouse.click"
                   /\ prim.arg.x = x
                   /\ prim.arg.y = y
                   /\ prim.arg.button =
                          IF button \in {"left", "right"} THEN button ELSE "left"

\* A step in which a page closes that the handle is not on.
OtherPageCloses ==
    /\ pc' = pc
    /\ Len(pages') < Len(pages)
    /\ PageOpen(_page)
    /\ _page \in Range(pages')

\* C21: when a page closes that is not the active page, the handle is left as
\* it is: the active page is the same open page after the event, a command
\* that is pending stays on its page, and the next command is issued on the
\* page of the handle.
C21_OtherPageCloseKeepsHandle ==
    /\ [][OtherPageCloses =>
              /\ _page' = _page
              /\ PageOpen(_page)'
              /\ target' = target]_vars
    /\ [][(pc' # pc \/ idx' # idx) /\ target' # None => target' = _page']_vars

\* The first page closed while the handle was on the second; the action that
\* follows is issued on the second page.
C21_Witness ==
    /\ pc = "action"
    /\ created = 2
    /\ pages = <<2>>
    /\ _page = 2
    /\ target = 2

\* The instants of the periods ps, their ends included.
Instants(ps) == {t \in Times : \E i \in 1..Len(ps) : ps[i][1] <= t /\ t <= ps[i][2]}

\* The units of time [t, t + 1) inside the periods ps.
Cells(ps) == {t \in Times : \E i \in 1..Len(ps) : ps[i][1] <= t /\ t < ps[i][2]}

\* C22: for busy periods with start <= end, merge_busy_periods returns
\* periods each of which starts strictly after the one before it ends (so they
\* are sorted by start, disjoint and non-touching), whose union is the union
\* of the input; an empty input gives an empty result.
C22_MergedDisjointSameUnion ==
    avail.stage = "busy" =>
        LET merged == avail.busy
        IN  /\ avail.all_busy = <<>> => merged = <<>>
            /\ \A i \in 1..Len(merged) : merged[i][1] <= merged[i][2]
            /\ \A i \in 1..(Len(merged) - 1) : merged[i][2] < merged[i + 1][1]
            /\ Instants(merged) = Instants(avail.all_busy)
            /\ Cells(merged) = Cells(avail.all_busy)

\* Two periods given out of order that touch were merged into one.
C22_Witness ==
    /\ avail.stage = "busy"
    /\ avail.all_busy = <<<<1, 3>>, <<0, 1>>>>
    /\ avail.busy = <<<<0, 3>>>>

\* The units of time of the work window.
Window == {t \in Times : avail.day_start <= t /\ t < avail.day_end}

\* The free slots are right for the busy periods and the work window.
FreeSlotsRight ==
    LET free == avail.free
    IN  /\ \A i \in 1..Len(free) :
               /\ free[i][1] < free[i][2]
               /\ avail.day_start <= free[i][1]
               /\ free[i][2] <= avail.day_end
        /\ \A i \in 1..(Len(free) - 1) : free[i][2] <= free[i + 1][1]
        /\ Cells(free) \cap Cells(avail.busy) = {}
        /\ Cells(free) \cup (Cells(avail.busy) \cap Window) = Window
        /\ Window \subseteq Cells(avail.busy) => free = <<>>

\* C23: for busy periods as merge_busy_periods returns them and day_start <
\* day_end, get_free_slots returns non-empty slots in increasing order inside
\* the work window that overlap no busy period and that, with the busy periods
\* clamped to the window, cover the window exactly; busy periods that cover
\* the whole window leave no slot.
C23_FreeSlotsCoverWindow ==
    (avail.stage = "free" /\ avail.day_start < avail.day_end) => FreeSlotsRight

\* The same on a day on which the clocks stay.
C23_RegularDay ==
    (avail.stage = "free" /\ avail.day_start < avail.day_end
        /\ avail.day = "regular") => FreeSlotsRight
====
